---- MODULE Spec2Model ----
(***************************************************************************)
(* Model of src/app.py: the key rotator get_working_model, the sidebar,    *)
(* the document research handler and the debate arena handler.             *)
(*                                                                         *)
(* The script is re-executed from its first line for every user            *)
(* interaction, in a fresh namespace; only st.session_state (the two       *)
(* transcripts) and the widget values survive from one run to the next.    *)
(* Texts are sequences of tokens: a literal of the source is one token, a  *)
(* formatted string is the concatenation of its pieces.                    *)
(***************************************************************************)
EXTENDS Naturals, Sequences, FiniteSets

\* ---------------------------------------------------------------- bounds
MaxPool == 2          \* longest list st.secrets["gemini"]["keys"] explored
MaxActions == 2       \* chat inputs submitted in one session

PoolKeys == {"k1", "k2"}            \* credentials a vault may hold
ManualKeys == {"m"}                 \* what the user may type as manual key
Questions == {<<"q">>}              \* chat inputs (non-empty texts)
Responses == {<<"r1">>, <<"r2">>}   \* texts the remote service may return
Libraries == {<<>>, <<[mime_type |-> "application/pdf", data |-> "d"]>>}

\* ------------------------------------------------------- values and texts
None == [api_key |-> "None", system_instruction |-> "None"]
Unbound == <<"<unbound name>">>
Raised == <<"<exception>">>

DOC_INSTRUCTION == "You are a PhD Researcher. Use LaTeX for math."
THEORIST_INSTRUCTION == "You are a Formal Theorist. Use LaTeX. Be stubborn."
APPLIED_INSTRUCTION == "You are an Applied Scientist. Critique the Theorist."
VERDICT_INSTRUCTION == "You are Pavel, Head Researcher. Synthesize."
NO_INSTRUCTION == "<no system_instruction>"
EXHAUSTED_MSG == "ALL KEYS EXHAUSTED. Add more accounts to Secrets."

VARIABLES
    secrets,          \* st.secrets: [gemini, has_keys, keys]
    accepts,          \* credentials the remote service accepts at call time
    manual_key,       \* value of the sidebar text input "Or enter Manual Key"
    mode,             \* value of the sidebar radio
    uploaded_files,   \* value of the file uploader
    doc_messages,     \* st.session_state.doc_messages
    debate_history,   \* st.session_state.debate_history
    pc,               \* position of the running script
    prompt,           \* the chat input of the running script (prompt / topic)
    model,            \* the name "model" of the running script
    resp_1,           \* the name "resp_1" of the running script
    resp_2,           \* the name "resp_2" of the running script
    api_key,          \* the process-wide key set by genai.configure
    acquire_log,      \* calls of get_working_model made by the running script
    calls,            \* calls of generate_content made by the running script
    errors,           \* st.error messages shown by the running script
    crashed,          \* exception that ended the last script run, or "no"
    doc0,             \* doc_messages when the running script started
    deb0,             \* debate_history when the running script started
    actions           \* chat inputs submitted so far

vars == <<secrets, accepts, manual_key, mode, uploaded_files,
          doc_messages, debate_history, pc, prompt, model, resp_1, resp_2,
          api_key, acquire_log, calls, errors, crashed, doc0, deb0, actions>>

config == <<secrets, accepts>>

\* ------------------------------------------------------------ key rotator
Handle(key, system_instruction) ==
    [api_key |-> key, system_instruction |-> system_instruction]

\* all sequences over S of length at most n
RECURSIVE SeqUpTo(_, _)
SeqUpTo(S, n) ==
    IF n = 0 THEN {<<>>}
    ELSE LET shorter == SeqUpTo(S, n - 1)
         IN  shorter \cup {Append(s, x) : s \in shorter, x \in S}

\* variant of TryKeys: the loop does not return at the first model it
\* constructs and ends up with the last one
RECURSIVE TryKeysLastWins(_, _, _, _)
TryKeysLastWins(keys, i, system_instruction, constructible) ==
    IF i > Len(keys)
    THEN [model |-> None, tried |-> <<>>, errors |-> <<EXHAUSTED_MSG>>]
    ELSE LET rest == TryKeysLastWins(keys, i + 1, system_instruction, constructible)
         IN  IF rest.model = None /\ keys[i] \in constructible
             THEN [model |-> Handle(keys[i], system_instruction),
                   tried |-> <<keys[i]>> \o rest.tried, errors |-> <<>>]
             ELSE [rest EXCEPT !.tried = <<keys[i]>> \o @]

\* variant of TryKeys: the first construction that raises ends the loop
RECURSIVE TryKeysGivesUp(_, _, _, _)
TryKeysGivesUp(keys, i, system_instruction, constructible) ==
    IF i > Len(keys)
    THEN [model |-> None, tried |-> <<>>, errors |-> <<EXHAUSTED_MSG>>]
    ELSE IF keys[i] \in constructible
         THEN [model |-> Handle(keys[i], system_instruction),
               tried |-> <<keys[i]>>, errors |-> <<>>]
         ELSE [model |-> None, tried |-> <<keys[i]>>, errors |-> <<EXHAUSTED_MSG>>]

\* lines 29-42: the loop over the keys from position i on, and what follows it;
\* constructible holds the credentials for which genai.configure and
\* genai.GenerativeModel do not raise during this call
RECURSIVE TryKeys(_, _, _, _)
TryKeys(keys, i, system_instruction, constructible) ==
    IF i > Len(keys)
    THEN [model |-> None, tried |-> <<>>, errors |-> <<EXHAUSTED_MSG>>]
    ELSE IF keys[i] \in constructible
         THEN [model |-> Handle(keys[i], system_instruction),
               tried |-> <<keys[i]>>, errors |-> <<>>]
         ELSE LET rest == TryKeys(keys, i + 1, system_instruction, constructible)
              IN  [rest EXCEPT !.tried = <<keys[i]>> \o @]

\* variant of get_working_model: without a vault the manual key is used
get_working_model_manual(system_instruction, constructible) ==
    IF secrets.gemini /\ secrets.has_keys
    THEN TryKeys(secrets.keys, 1, system_instruction, constructible)
    ELSE IF ~secrets.gemini /\ manual_key # ""
         THEN [model |-> Handle(manual_key, system_instruction),
               tried |-> <<manual_key>>, errors |-> <<>>]
         ELSE [model |-> None, tried |-> <<>>, errors |-> <<>>]

\* variant of get_working_model: a missing vault is treated as an empty one
get_working_model_empty_vault(system_instruction, constructible) ==
    TryKeys(IF secrets.gemini /\ secrets.has_keys THEN secrets.keys ELSE <<>>,
            1, system_instruction, constructible)

\* variant of get_working_model: each call of a run starts one position
\* further in the list and wraps around
Rotate(keys, n) ==
    [i \in 1..Len(keys) |-> keys[((i - 1 + n) % Len(keys)) + 1]]
get_working_model_rotates(system_instruction, constructible) ==
    IF secrets.gemini /\ secrets.has_keys
    THEN TryKeys(Rotate(secrets.keys, Len(acquire_log)), 1, system_instruction,
                 constructible)
    ELSE [model |-> None, tried |-> <<>>, errors |-> <<>>]

\* lines 20-42: the returned model, the keys passed to genai.configure in
\* order, and the st.error messages shown
get_working_model(system_instruction, constructible) ==
    IF secrets.gemini /\ secrets.has_keys
    THEN TryKeys(secrets.keys, 1, system_instruction, constructible)
    ELSE [model |-> None, tried |-> <<>>, errors |-> <<>>]

\* variant of Configured: only the first key of a call is configured
ConfiguredFirst(tried) ==
    IF tried = <<>> THEN api_key ELSE tried[1]

\* the global key after a call that passed `tried` to genai.configure
Configured(tried) ==
    IF tried = <<>> THEN api_key ELSE tried[Len(tried)]

\* ---------------------------------------------------------------- sidebar
\* line 50 reads st.secrets['gemini']['keys'] whenever "gemini" is present
SidebarRaises == secrets.gemini /\ ~secrets.has_keys

\* line 85: 'manual_key' in locals() and manual_key
ManualKeyGiven == ~secrets.gemini /\ manual_key # ""

\* ---------------------------------------------------------- remote service
\* model.generate_content(...).text: a text, or an exception
generate_content(m) ==
    IF m.api_key \in accepts THEN Responses \cup {Raised} ELSE {Raised}

\* ------------------------------------------------------------ transcripts
\* variant of DocEntry: every entry is given the role of the question
DocEntryUser(role, content) == [role |-> "user", content |-> content]

\* lines 76 and 100: the dicts appended to doc_messages
DocEntry(role, content) == [role |-> role, content |-> content]

\* line 114
YouEntry(topic) == <<"**You:** ">> \o topic
\* line 122
html_1(r1) == <<"<div class='theorist'><b>Theorist:</b><br>">> \o r1 \o <<"</div>">>
\* line 134
html_2(r2) == <<"<div class='applied'><b>Applied:</b><br>">> \o r2 \o <<"</div>">>
\* line 145
html_3(r3) == <<"<div class='verdict'><b>FINAL VERDICT:</b><br>">> \o r3 \o <<"</div>">>

\* line 121
TheoristPrompt(topic) == <<"Theoretical view: ">> \o topic
\* line 133
AppliedPrompt(topic, r1) ==
    <<"Practical view: ">> \o topic \o <<". Critique: ">> \o r1
\* variant of VerdictPrompt: the theorist's response stands in both places
VerdictPromptRepeats(r1, r2) ==
    <<"Theorist: ">> \o r1 \o <<". Applied: ">> \o r1 \o <<". Verdict?">>

\* line 144
VerdictPrompt(r1, r2) ==
    <<"Theorist: ">> \o r1 \o <<". Applied: ">> \o r2 \o <<". Verdict?">>

\* lines 92-96: the question followed by one part per uploaded file
DocContent(question, files) == [text |-> question, files |-> files]
TextContent(text) == [text |-> text, files |-> <<>>]

Call(step, m, content, result) ==
    [step |-> step, model |-> m, content |-> content, result |-> result]
Shown(step, msgs) == [i \in 1..Len(msgs) |-> [step |-> step, msg |-> msgs[i]]]
Acquired(step, system_instruction, constructible, r) ==
    [step |-> step, system_instruction |-> system_instruction,
     model |-> r.model, tried |-> r.tried, errors |-> r.errors,
     constructible |-> constructible]

\* ------------------------------------------------------------------- Init
Range(s) == {s[i] : i \in 1..Len(s)}
Subsets(S) == SUBSET S

\* the key lists explored, up to the names of the credentials: the first one
\* is called k1
Pools == {p \in SeqUpTo(PoolKeys, MaxPool) : p = <<>> \/ p[1] = "k1"}

Vaults ==
    {[gemini |-> FALSE, has_keys |-> FALSE, keys |-> <<>>],
     [gemini |-> TRUE, has_keys |-> FALSE, keys |-> <<>>]}
    \cup {[gemini |-> TRUE, has_keys |-> TRUE, keys |-> ks] :
            ks \in Pools}

\* the credentials a session with these secrets can ever construct a model for
KeysInUse(s) == IF s.gemini THEN Range(s.keys) ELSE ManualKeys

Init ==
    /\ secrets \in Vaults
    /\ accepts \in Subsets(KeysInUse(secrets))
    /\ manual_key = ""
    /\ mode = "doc"
    /\ uploaded_files = <<>>
    /\ doc_messages = <<>>
    /\ debate_history = <<>>
    /\ pc = "idle"
    /\ prompt = <<>>
    /\ model = None
    /\ resp_1 = Unbound
    /\ resp_2 = Unbound
    /\ api_key = "None"
    /\ acquire_log = <<>>
    /\ calls = <<>>
    /\ errors = <<>>
    /\ crashed = IF SidebarRaises THEN "KeyError" ELSE "no"
    /\ doc0 = <<>>
    /\ deb0 = <<>>
    /\ actions = 0

\* a rerun starts from a fresh namespace and an empty page
FreshRun ==
    /\ model' = None
    /\ resp_1' = Unbound
    /\ resp_2' = Unbound
    /\ acquire_log' = <<>>
    /\ calls' = <<>>
    /\ errors' = <<>>
    /\ crashed' = "no"
    /\ doc0' = doc_messages
    /\ deb0' = debate_history

\* the widgets exist only when the last run got past line 50
Interactive == pc = "idle" /\ ~SidebarRaises

\* ------------------------------------------------------- sidebar widgets
\* line 54: the user types a manual key (shown only without a vault)
EnterManualKey(k) ==
    /\ Interactive
    /\ ~secrets.gemini
    /\ k # manual_key
    /\ manual_key' = k
    /\ FreshRun
    /\ prompt' = <<>>
    /\ UNCHANGED <<config, mode, uploaded_files, doc_messages, debate_history,
                   pc, api_key, actions>>

\* lines 56-63: the radio; the debate arena has no library
SelectMode(m) ==
    /\ Interactive
    /\ m # mode
    /\ mode' = m
    /\ uploaded_files' = <<>>
    /\ FreshRun
    /\ prompt' = <<>>
    /\ UNCHANGED <<config, manual_key, doc_messages, debate_history, pc,
                   api_key, actions>>

\* line 60: the file uploader of the document mode
Upload(files) ==
    /\ Interactive
    /\ mode = "doc"
    /\ files # uploaded_files
    /\ uploaded_files' = files
    /\ FreshRun
    /\ prompt' = <<>>
    /\ UNCHANGED <<config, manual_key, mode, doc_messages, debate_history, pc,
                   api_key, actions>>

\* variant of SubmitQuestion: the question goes to both transcripts
SubmitQuestionShared(q) ==
    /\ Interactive
    /\ mode = "doc"
    /\ actions < MaxActions
    /\ FreshRun
    /\ prompt' = q
    /\ doc_messages' = Append(doc_messages, DocEntry("user", q))
    /\ debate_history' = Append(debate_history, YouEntry(q))
    /\ pc' = "doc_acquire"
    /\ actions' = actions + 1
    /\ UNCHANGED <<config, manual_key, mode, uploaded_files, api_key>>

\* variant of SubmitQuestion: the question is not recorded
SubmitQuestionDefers(q) ==
    /\ Interactive
    /\ mode = "doc"
    /\ actions < MaxActions
    /\ FreshRun
    /\ prompt' = q
    /\ pc' = "doc_acquire"
    /\ actions' = actions + 1
    /\ UNCHANGED <<config, manual_key, mode, uploaded_files, doc_messages,
                   debate_history, api_key>>

\* --------------------------------------------------------- document mode
\* lines 75-77
SubmitQuestion(q) ==
    /\ Interactive
    /\ mode = "doc"
    /\ actions < MaxActions
    /\ FreshRun
    /\ prompt' = q
    /\ doc_messages' = Append(doc_messages, DocEntry("user", q))
    /\ pc' = "doc_acquire"
    /\ actions' = actions + 1
    /\ UNCHANGED <<config, manual_key, mode, uploaded_files, debate_history,
                   api_key>>

\* variant of Acquire: a model the run already holds is kept, and
\* get_working_model is called only when it holds none
AcquireCached(step, system_instruction, next) ==
    \E constructible \in Subsets(Range(secrets.keys)) :
      LET r == get_working_model(system_instruction, constructible)
      IN
        /\ pc' = next
        /\ IF model # None
           THEN UNCHANGED <<model, api_key, errors, acquire_log>>
           ELSE /\ model' = r.model
                /\ api_key' = Configured(r.tried)
                /\ errors' = errors \o Shown(step, r.errors)
                /\ acquire_log' = Append(acquire_log,
                         Acquired(step, system_instruction, constructible, r))
        /\ UNCHANGED <<config, manual_key, mode, uploaded_files, doc_messages,
                       debate_history, prompt, resp_1, resp_2, calls, crashed,
                       doc0, deb0, actions>>

\* a call of get_working_model by the running script; which constructions
\* succeed is the library's decision, taken anew at every call
Acquire(step, system_instruction, next) ==
    \E constructible \in Subsets(Range(secrets.keys)) :
      LET r == get_working_model(system_instruction, constructible)
      IN
        /\ model' = r.model
        /\ api_key' = Configured(r.tried)
        /\ errors' = errors \o Shown(step, r.errors)
        /\ acquire_log' = Append(acquire_log,
                 Acquired(step, system_instruction, constructible, r))
        /\ pc' = next
        /\ UNCHANGED <<config, manual_key, mode, uploaded_files, doc_messages,
                       debate_history, prompt, resp_1, resp_2, calls, crashed,
                       doc0, deb0, actions>>

\* line 82
DocAcquire ==
    /\ pc = "doc_acquire"
    /\ Acquire("doc", DOC_INSTRUCTION, "doc_fallback")

\* variant of DocFallback: the manual key is configured whatever
\* get_working_model returned
DocFallbackAlways ==
    /\ pc = "doc_fallback"
    /\ api_key' = manual_key
    /\ \/ /\ model' = Handle(manual_key, NO_INSTRUCTION)
          /\ pc' = "doc_call"
          /\ UNCHANGED crashed
       \/ /\ crashed' = "Exception"
          /\ pc' = "idle"
          /\ UNCHANGED model
    /\ UNCHANGED <<config, manual_key, mode, uploaded_files, doc_messages,
                   debate_history, prompt, resp_1, resp_2, acquire_log, calls,
                   errors, doc0, deb0, actions>>

\* lines 85-87: not guarded by any try
DocFallback ==
    /\ pc = "doc_fallback"
    /\ IF model = None /\ ManualKeyGiven
       THEN /\ api_key' = manual_key
            /\ \/ /\ model' = Handle(manual_key, NO_INSTRUCTION)
                  /\ pc' = "doc_call"
                  /\ UNCHANGED crashed
               \/ /\ crashed' = "Exception"
                  /\ pc' = "idle"
                  /\ UNCHANGED model
       ELSE /\ pc' = "doc_call"
            /\ UNCHANGED <<api_key, model, crashed>>
    /\ UNCHANGED <<config, manual_key, mode, uploaded_files, doc_messages,
                   debate_history, prompt, resp_1, resp_2, acquire_log, calls,
                   errors, doc0, deb0, actions>>

\* variant of DocCall: the message of a failed call is kept as the answer
DocCallKeepsError ==
    /\ pc = "doc_call"
    /\ pc' = "idle"
    /\ IF model = None
       THEN UNCHANGED <<doc_messages, calls, errors>>
       ELSE \E result \in generate_content(model) :
              /\ calls' = Append(calls, Call("doc", model,
                                   DocContent(prompt, uploaded_files), result))
              /\ IF result = Raised
                 THEN /\ errors' = errors \o Shown("doc", <<"Error: e">>)
                      /\ doc_messages' =
                           Append(doc_messages, DocEntry("assistant", <<"Error: e">>))
                 ELSE /\ doc_messages' =
                           Append(doc_messages, DocEntry("assistant", result))
                      /\ UNCHANGED errors
    /\ UNCHANGED <<config, manual_key, mode, uploaded_files, debate_history,
                   prompt, model, resp_1, resp_2, api_key, acquire_log, crashed,
                   doc0, deb0, actions>>

\* variant of DocCall: a call that raised is repeated with the other
\* credentials of the pool
DocCallRetries ==
    /\ pc = "doc_call"
    /\ pc' = "idle"
    /\ IF model = None
       THEN UNCHANGED <<doc_messages, calls, errors>>
       ELSE \E result \in generate_content(model) :
              LET first == Call("doc", model, DocContent(prompt, uploaded_files), result)
                  others == Range(secrets.keys) \ {model.api_key}
              IN  IF result = Raised /\ others # {}
                  THEN \E k \in others :
                         \E again \in generate_content(Handle(k, model.system_instruction)) :
                           /\ calls' = calls \o <<first,
                                 Call("doc", Handle(k, model.system_instruction),
                                      DocContent(prompt, uploaded_files), again)>>
                           /\ IF again = Raised
                              THEN /\ errors' = errors \o Shown("doc", <<"Error: e">>)
                                   /\ UNCHANGED doc_messages
                              ELSE /\ doc_messages' =
                                        Append(doc_messages, DocEntry("assistant", again))
                                   /\ UNCHANGED errors
                  ELSE /\ calls' = Append(calls, first)
                       /\ IF result = Raised
                          THEN /\ errors' = errors \o Shown("doc", <<"Error: e">>)
                               /\ UNCHANGED doc_messages
                          ELSE /\ doc_messages' =
                                    Append(doc_messages, DocEntry("assistant", result))
                               /\ UNCHANGED errors
    /\ UNCHANGED <<config, manual_key, mode, uploaded_files, debate_history,
                   prompt, model, resp_1, resp_2, api_key, acquire_log, crashed,
                   doc0, deb0, actions>>

\* lines 89-102
DocCall ==
    /\ pc = "doc_call"
    /\ pc' = "idle"
    /\ IF model = None
       THEN UNCHANGED <<doc_messages, calls, errors>>
       ELSE \E result \in generate_content(model) :
              /\ calls' = Append(calls, Call("doc", model,
                                   DocContent(prompt, uploaded_files), result))
              /\ IF result = Raised
                 THEN /\ errors' = errors \o Shown("doc", <<"Error: e">>)
                      /\ UNCHANGED doc_messages
                 ELSE /\ doc_messages' =
                           Append(doc_messages, DocEntry("assistant", result))
                      /\ UNCHANGED errors
    /\ UNCHANGED <<config, manual_key, mode, uploaded_files, debate_history,
                   prompt, model, resp_1, resp_2, api_key, acquire_log, crashed,
                   doc0, deb0, actions>>

\* ----------------------------------------------------------- debate mode
\* lines 112-114
SubmitTopic(topic) ==
    /\ Interactive
    /\ mode = "debate"
    /\ actions < MaxActions
    /\ FreshRun
    /\ prompt' = topic
    /\ debate_history' = Append(debate_history, YouEntry(topic))
    /\ pc' = "theorist_acquire"
    /\ actions' = actions + 1
    /\ UNCHANGED <<config, manual_key, mode, uploaded_files, doc_messages,
                   api_key>>

\* a name used in an f-string that no earlier step has bound raises NameError
\* inside the step's try, before generate_content is entered
NameError(step, msg) ==
    /\ errors' = errors \o Shown(step, <<msg>>)
    /\ UNCHANGED <<calls, debate_history, resp_1, resp_2>>

\* variant of Generate: a call that raised takes the topic's entries back
GenerateRetracts(step, text, result) ==
    /\ calls' = Append(calls, Call(step, model, TextContent(text), result))
    /\ IF result = Raised
       THEN /\ errors' = errors \o Shown(step, <<"str(e)">>)
            /\ debate_history' = deb0
            /\ UNCHANGED <<resp_1, resp_2>>
       ELSE /\ UNCHANGED errors
            /\ CASE step = "theorist" ->
                      /\ resp_1' = result
                      /\ debate_history' = Append(debate_history, html_1(result))
                      /\ UNCHANGED resp_2
                 [] step = "applied" ->
                      /\ resp_2' = result
                      /\ debate_history' = Append(debate_history, html_2(result))
                      /\ UNCHANGED resp_1
                 [] step = "verdict" ->
                      /\ debate_history' = Append(debate_history, html_3(result))
                      /\ UNCHANGED <<resp_1, resp_2>>

\* the step's try block once its prompt has been formatted: the remote call,
\* then either the binding of the response and the append, or st.error(str(e))
Generate(step, text, result) ==
    /\ calls' = Append(calls, Call(step, model, TextContent(text), result))
    /\ IF result = Raised
       THEN /\ errors' = errors \o Shown(step, <<"str(e)">>)
            /\ UNCHANGED <<debate_history, resp_1, resp_2>>
       ELSE /\ UNCHANGED errors
            /\ CASE step = "theorist" ->
                      /\ resp_1' = result
                      /\ debate_history' = Append(debate_history, html_1(result))
                      /\ UNCHANGED resp_2
                 [] step = "applied" ->
                      /\ resp_2' = result
                      /\ debate_history' = Append(debate_history, html_2(result))
                      /\ UNCHANGED resp_1
                 [] step = "verdict" ->
                      /\ debate_history' = Append(debate_history, html_3(result))
                      /\ UNCHANGED <<resp_1, resp_2>>

DebateFrame ==
    UNCHANGED <<config, manual_key, mode, uploaded_files, doc_messages, prompt,
                model, api_key, acquire_log, crashed, doc0, deb0, actions>>

\* line 118
TheoristAcquire ==
    /\ pc = "theorist_acquire"
    /\ Acquire("theorist", THEORIST_INSTRUCTION, "theorist_call")

\* lines 119-125
TheoristCall ==
    /\ pc = "theorist_call"
    /\ pc' = "applied_acquire"
    /\ IF model = None
       THEN UNCHANGED <<calls, errors, debate_history, resp_1, resp_2>>
       ELSE \E result \in generate_content(model) :
              Generate("theorist", TheoristPrompt(prompt), result)
    /\ DebateFrame

\* line 130
AppliedAcquire ==
    /\ pc = "applied_acquire"
    /\ Acquire("applied", APPLIED_INSTRUCTION, "applied_call")

\* variant of AppliedCall: a theorist response never bound counts as empty
AppliedCallDefaults ==
    /\ pc = "applied_call"
    /\ pc' = "verdict_acquire"
    /\ IF model = None
       THEN UNCHANGED <<calls, errors, debate_history, resp_1, resp_2>>
       ELSE \E result \in generate_content(model) :
              Generate("applied",
                       AppliedPrompt(prompt, IF resp_1 = Unbound THEN <<>> ELSE resp_1),
                       result)
    /\ DebateFrame

\* lines 131-137
AppliedCall ==
    /\ pc = "applied_call"
    /\ pc' = "verdict_acquire"
    /\ IF model = None
       THEN UNCHANGED <<calls, errors, debate_history, resp_1, resp_2>>
       ELSE IF resp_1 = Unbound
            THEN NameError("applied", "name 'resp_1' is not defined")
            ELSE \E result \in generate_content(model) :
                   Generate("applied", AppliedPrompt(prompt, resp_1), result)
    /\ DebateFrame

\* line 141
VerdictAcquire ==
    /\ pc = "verdict_acquire"
    /\ Acquire("verdict", VERDICT_INSTRUCTION, "verdict_call")

\* variant of VerdictCall: a response no step has bound counts as empty text
VerdictCallDefaults ==
    /\ pc = "verdict_call"
    /\ pc' = "idle"
    /\ IF model = None
       THEN UNCHANGED <<calls, errors, debate_history, resp_1, resp_2>>
       ELSE \E result \in generate_content(model) :
              Generate("verdict",
                       VerdictPrompt(IF resp_1 = Unbound THEN <<>> ELSE resp_1,
                                     IF resp_2 = Unbound THEN <<>> ELSE resp_2),
                       result)
    /\ DebateFrame

\* lines 142-148
VerdictCall ==
    /\ pc = "verdict_call"
    /\ pc' = "idle"
    /\ IF model = None
       THEN UNCHANGED <<calls, errors, debate_history, resp_1, resp_2>>
       ELSE IF resp_1 = Unbound
            THEN NameError("verdict", "name 'resp_1' is not defined")
            ELSE IF resp_2 = Unbound
                 THEN NameError("verdict", "name 'resp_2' is not defined")
                 ELSE \E result \in generate_content(model) :
                        Generate("verdict", VerdictPrompt(resp_1, resp_2), result)
    /\ DebateFrame

\* ------------------------------------------------------------------- Next
Next ==
    \/ \E k \in ManualKeys \cup {""} : EnterManualKey(k)
    \/ \E m \in {"doc", "debate"} : SelectMode(m)
    \/ \E files \in Libraries : Upload(files)
    \/ \E q \in Questions : SubmitQuestion(q)
    \/ DocAcquire
    \/ DocFallback
    \/ DocCall
    \/ \E topic \in Questions : SubmitTopic(topic)
    \/ TheoristAcquire
    \/ TheoristCall
    \/ AppliedAcquire
    \/ AppliedCall
    \/ VerdictAcquire
    \/ VerdictCall

Spec == Init /\ [][Next]_vars

\* ================================================================ claims
PoolConfigured == secrets.gemini /\ secrets.has_keys
Entries(log) == {log[i] : i \in 1..Len(log)}
IsPrefix(s, t) == Len(s) <= Len(t) /\ SubSeq(t, 1, Len(s)) = s
Last(s) == s[Len(s)]

\* what a call of get_working_model reported: a handle, the exhaustion of the
\* pool (no handle, the error shown), or nothing at all (no handle, no error)
Exhausted(e) == e.model = None /\ e.errors = <<EXHAUSTED_MSG>>
Silent(e) == e.model = None /\ e.errors = <<>>

\* C1: whenever get_working_model is called on a non-empty pool in which at
\* least one credential constructs, it returns the handle bound to the
\* lowest-index such credential and to the directive it was called with,
\* however many lower-index credentials fail.
C1_FirstConstructible ==
    \A e \in Entries(acquire_log) :
        (PoolConfigured /\ \E i \in 1..Len(secrets.keys) :
                               secrets.keys[i] \in e.constructible)
        => \E i \in 1..Len(secrets.keys) :
              /\ secrets.keys[i] \in e.constructible
              /\ \A j \in 1..(i - 1) : secrets.keys[j] \notin e.constructible
              /\ e.model = Handle(secrets.keys[i], e.system_instruction)

\* a call skipped a failing first credential and returned the second
C1_Witness ==
    /\ PoolConfigured
    /\ Len(secrets.keys) >= 2
    /\ \E e \in Entries(acquire_log) :
          /\ secrets.keys[1] \notin e.constructible
          /\ secrets.keys[2] \in e.constructible
          /\ e.model = Handle(secrets.keys[2], e.system_instruction)
          /\ model = e.model

\* C2: a call on a pool in which every credential fails construction returns
\* no handle and reports the exhaustion, leaves st.secrets as it was, and
\* reports the same as every other such call of the same run.
C2_ExhaustedIdempotent ==
    [][(/\ Len(acquire_log') = Len(acquire_log) + 1
        /\ PoolConfigured
        /\ Last(acquire_log').constructible \cap Range(secrets.keys) = {})
       => /\ model' = None
          /\ Exhausted(Last(acquire_log'))
          /\ Last(acquire_log').tried = secrets.keys
          /\ secrets' = secrets
          /\ \A e \in Entries(acquire_log) :
                e.constructible \cap Range(secrets.keys) = {}
                => /\ e.model = Last(acquire_log').model
                   /\ e.errors = Last(acquire_log').errors
                   /\ e.tried = Last(acquire_log').tried]_vars

\* two calls of one run found every credential of a two-key pool failing
C2_Witness ==
    /\ PoolConfigured
    /\ Len(secrets.keys) = 2
    /\ Len(acquire_log) >= 2
    /\ \A e \in Entries(acquire_log) : e.constructible = {} /\ Exhausted(e)
    /\ model = None

\* C3 as claimed: without a configured pool no credential is attempted and the
\* value returned differs from the one returned when the pool is exhausted.
C3_Original ==
    \A e \in Entries(acquire_log) :
        ~PoolConfigured
        => /\ e.tried = <<>>
           /\ e.model # TryKeys(<<>>, 1, e.system_instruction, {}).model

\* C3 amended: without a configured pool no credential is attempted, no handle
\* is returned and no error is shown; the exhausted pool returns the same
\* value (no handle) and differs only by the error it shows.
C3_NoPoolSilent ==
    \A e \in Entries(acquire_log) :
        /\ ~PoolConfigured => e.tried = <<>> /\ Silent(e)
        /\ (PoolConfigured /\ e.constructible \cap Range(secrets.keys) = {})
           => Exhausted(e) /\ ~Silent(e)

\* a call was made without a vault and returned nothing
C3_Witness ==
    /\ ~secrets.gemini
    /\ acquire_log # <<>>
    /\ Silent(Last(acquire_log))
    /\ api_key = "None"

\* ---------------------------------------------------- reading a transcript
\* the kind of a debate_history entry, read off the markup it starts with
Role(entry) ==
    CASE entry[1] = "**You:** " -> "user"
      [] entry[1] = "<div class='theorist'><b>Theorist:</b><br>" -> "theorist"
      [] entry[1] = "<div class='applied'><b>Applied:</b><br>" -> "applied"
      [] entry[1] = "<div class='verdict'><b>FINAL VERDICT:</b><br>" -> "verdict"
      [] OTHER -> "unknown"
Roles(entries) == [i \in 1..Len(entries) |-> Role(entries[i])]

\* t occurs in s as a contiguous run of tokens
Contains(s, t) ==
    \E i \in 1..(Len(s) + 1 - Len(t)) : SubSeq(s, i, i + Len(t) - 1) = t

\* what the running script has appended so far
NewDebate == SubSeq(debate_history, Len(deb0) + 1, Len(debate_history))
NewDoc == SubSeq(doc_messages, Len(doc0) + 1, Len(doc_messages))

CallsOf(step) == {c \in Entries(calls) : c.step = step}
StepOK(step) == \E c \in CallsOf(step) : c.result # Raised
\* the step found no handle, or its remote call raised
StepFailed(step) ==
    \/ \E e \in Entries(acquire_log) : e.step = step /\ e.model = None
    \/ \E c \in CallsOf(step) : c.result = Raised
StepName == <<"theorist", "applied", "verdict">>

\* C4: every step of every run leaves both transcripts extended: what was
\* there before is a prefix of what is there after, so no entry is removed,
\* edited or reordered and no user entry is retracted.
C4_AppendOnly ==
    [][/\ IsPrefix(doc_messages, doc_messages')
       /\ IsPrefix(debate_history, debate_history')
       /\ IsPrefix(doc0', doc_messages')
       /\ IsPrefix(deb0', debate_history')]_vars

\* a debate run that appended entries and then met a failure, in a session
\* that already has a document transcript
C4_Witness ==
    /\ pc = "idle"
    /\ doc_messages # <<>>
    /\ Len(NewDebate) >= 2
    /\ errors # <<>>

\* C5: when the theorist step succeeded and the applied step failed, the
\* topic's entries are exactly the user entry and the theorist entry, at every
\* later point of the run, whatever the verdict step acquires.
C5_ShortCircuit ==
    (StepOK("theorist") /\ StepFailed("applied"))
    => /\ IsPrefix(deb0, debate_history)
       /\ Roles(NewDebate) = <<"user", "theorist">>
       /\ NewDebate[1] = <<"**You:** ">> \o prompt
       /\ \E c \in CallsOf("theorist") : Contains(NewDebate[2], c.result)

\* the applied step found no handle, the verdict step found one, the run ended
C5_Witness ==
    /\ pc = "idle"
    /\ StepOK("theorist")
    /\ \E e \in Entries(acquire_log) : e.step = "applied" /\ e.model = None
    /\ \E e \in Entries(acquire_log) : e.step = "verdict" /\ e.model # None

\* C6 as claimed: once step N (1 or 2) has failed, no later step of the topic
\* calls get_working_model, calls the remote service or shows an error, and
\* the entries of the earlier steps remain.
C6_AbortsLaterSteps ==
    \A n \in 1..2 :
        StepFailed(StepName[n])
        => /\ \A k \in (n + 1)..3 :
                 /\ \A e \in Entries(acquire_log) : e.step # StepName[k]
                 /\ CallsOf(StepName[k]) = {}
                 /\ \A x \in Entries(errors) : x.step # StepName[k]
           /\ IsPrefix(Append(deb0, <<"**You:** ">> \o prompt), debate_history)

\* C7: when all three steps succeeded the topic has appended exactly the
\* user, theorist, applied and verdict entries in that order, the prompt of
\* step 2 holds the theorist's response and the prompt of step 3 holds the
\* theorist's and the applied scientist's responses, token for token.
C7_FullDebate ==
    (StepOK("theorist") /\ StepOK("applied") /\ StepOK("verdict"))
    => /\ IsPrefix(deb0, debate_history)
       /\ Roles(NewDebate) = <<"user", "theorist", "applied", "verdict">>
       /\ Len(calls) = 3
       /\ [i \in 1..3 |-> calls[i].step] = StepName
       /\ NewDebate[1] = <<"**You:** ">> \o prompt
       /\ \A i \in 1..3 : Contains(NewDebate[i + 1], calls[i].result)
       /\ Contains(calls[1].content.text, prompt)
       /\ Contains(calls[2].content.text, calls[1].result)
       /\ Contains(calls[3].content.text, calls[1].result)
       /\ Contains(calls[3].content.text, calls[2].result)

\* a full debate whose theorist and applied scientist answered differently
C7_Witness ==
    /\ pc = "idle"
    /\ StepOK("theorist") /\ StepOK("applied") /\ StepOK("verdict")
    /\ Len(calls) = 3
    /\ calls[1].result # calls[2].result

\* C8: a question answered by the remote service has appended exactly the
\* user entry holding the question and then the assistant entry holding the
\* returned text; the one call carried the question and the uploaded files.
C8_QuestionAnswered ==
    StepOK("doc")
    => /\ IsPrefix(doc0, doc_messages)
       /\ Len(calls) = 1
       /\ calls[1].content = [text |-> prompt, files |-> uploaded_files]
       /\ NewDoc = <<[role |-> "user", content |-> prompt],
                     [role |-> "assistant", content |-> calls[1].result]>>

\* a question with an attachment answered through the vault
C8_Witness ==
    /\ pc = "idle"
    /\ StepOK("doc")
    /\ PoolConfigured
    /\ uploaded_files # <<>>
    /\ doc0 # <<>>

\* C9: a question whose pool is exhausted, or whose remote call raised, has
\* appended the user entry and nothing else, an error is shown, and what the
\* transcript held before is still there.
C9_QuestionFailed ==
    (\/ \E e \in Entries(acquire_log) : e.step = "doc" /\ Exhausted(e)
     \/ \E c \in CallsOf("doc") : c.result = Raised)
    => /\ IsPrefix(doc0, doc_messages)
       /\ NewDoc = <<[role |-> "user", content |-> prompt]>>
       /\ \E x \in Entries(errors) : x.step = "doc"

\* the remote call of a second question raised after a first one was answered
C9_Witness ==
    /\ pc = "idle"
    /\ \E c \in CallsOf("doc") : c.result = Raised
    /\ Len(doc0) = 2
    /\ doc0[2].role = "assistant"

\* C10: within one run no two remote calls belong to the same step or use the
\* same handle: a question makes at most one call and a topic at most three,
\* one per step, so a call that raised is not repeated with another key.
C10_NoRetry ==
    /\ \A i, j \in 1..Len(calls) :
          i # j => /\ calls[i].step # calls[j].step
                   /\ calls[i].model # calls[j].model
    /\ Len(calls) <= 3
    /\ CallsOf("doc") # {} => Len(calls) = 1
    /\ Len(calls) <= Len(acquire_log)

\* the call with the first key raised although the second key of the pool
\* constructs and is accepted by the service; the run ended after that call
C10_Witness ==
    /\ pc = "idle"
    /\ secrets.keys = <<"k1", "k2">>
    /\ "k2" \in accepts
    /\ Len(calls) = 1
    /\ calls[1].result = Raised
    /\ calls[1].model.api_key = "k1"
    /\ calls[1].step = "doc"
    /\ "k2" \in acquire_log[1].constructible

\* ------------------------------------------------------ the finished run
\* the run that last stopped was started by a chat input
RunEnded == pc = "idle" /\ prompt # <<>>
\* it did not get the answer it asked for
RunFailed ==
    IF mode = "doc" THEN Len(NewDoc) < 2 ELSE Len(NewDebate) < 4
\* line 53 (the warning shown on every run without a vault) and st.error
ErrorShown == errors # <<>> \/ ~secrets.gemini

\* C11 as claimed: no run started by a user action is ended by an exception,
\* and a run that failed for any reason ends with an error on the page.
C11_NothingEscapes ==
    /\ actions > 0 => crashed = "no"
    /\ (RunEnded /\ RunFailed) => ErrorShown

\* a handle built by line 87 from the manual key
IsManual(m) == m.system_instruction = NO_INSTRUCTION

\* C12: line 86-87 run only after get_working_model returned no handle: a
\* manual handle, a manual call or an exception of the fallback imply that the
\* call of get_working_model of this run returned None, and once it returned
\* a handle, that handle stays the model and the configured key of the run
\* and serves its call.
C12_ManualOnlyWithoutHandle ==
    /\ (IsManual(model) \/ crashed = "Exception"
        \/ \E c \in Entries(calls) : IsManual(c.model))
       => /\ acquire_log # <<>>
          /\ \A e \in Entries(acquire_log) : e.model = None
    /\ \A e \in Entries(acquire_log) :
          (e.step = "doc" /\ e.model # None)
          => /\ model = e.model
             /\ api_key = e.model.api_key
             /\ \A c \in Entries(calls) : c.model = e.model

\* without a vault the typed key built the handle that answered the question
C12_Witness ==
    /\ RunEnded
    /\ ~secrets.gemini
    /\ manual_key = "m"
    /\ model = Handle("m", NO_INSTRUCTION)
    /\ StepOK("doc")
    /\ Silent(acquire_log[1])

\* C13: every remote call belongs to the call of get_working_model made just
\* before it: it is the first call since that acquire, it uses the handle the
\* acquire returned (or the manual handle built after it returned none), no
\* earlier call of the run used that handle, and an acquire is never made for
\* a step that already has one, so the acquire of the next step follows the
\* call of the step before.
C13_AcquireBeforeEachCall ==
    [][/\ (calls' # calls /\ calls' # <<>>)
          => /\ calls' = Append(calls, Last(calls'))
             /\ acquire_log' = acquire_log
             /\ acquire_log # <<>>
             /\ Last(calls').step = Last(acquire_log).step
             /\ \/ Last(calls').model = Last(acquire_log).model
                \/ /\ IsManual(Last(calls').model)
                   /\ Last(acquire_log).model = None
             /\ \A c \in Entries(calls) :
                   /\ c.step # Last(acquire_log).step
                   /\ c.model # Last(calls').model
       /\ (acquire_log' # acquire_log /\ acquire_log' # <<>>)
          => /\ acquire_log' = Append(acquire_log, Last(acquire_log'))
             /\ calls' = calls
             /\ \A e \in Entries(acquire_log) : e.step # Last(acquire_log').step
             /\ \A c \in Entries(calls) :
                   \E e \in Entries(acquire_log) : e.step = c.step]_vars

\* a debate whose three calls were served by handles of three acquires, the
\* first two bound to different credentials
C13_Witness ==
    /\ RunEnded
    /\ Len(calls) = 3
    /\ Len(acquire_log) = 3
    /\ \A i \in 1..3 : calls[i].model = acquire_log[i].model
    /\ calls[1].model.api_key # calls[2].model.api_key

\* the number of credentials one call of get_working_model attempts: up to
\* the first that constructs, or all of them
Attempts(keys, constructible) ==
    IF \E i \in 1..Len(keys) : keys[i] \in constructible
    THEN CHOOSE i \in 1..Len(keys) :
            /\ keys[i] \in constructible
            /\ \A j \in 1..(i - 1) : keys[j] \notin constructible
    ELSE Len(keys)

\* C14: a call of get_working_model attempts exactly the prefix of the pool
\* that ends with the first credential that constructs (the whole pool when
\* none does), in index order and from index 1 at every call and for every
\* directive; calls that meet the same construction outcomes attempt the same
\* credentials and select the same one.
C14_PrefixFromStart ==
    /\ \A e \in Entries(acquire_log) :
          e.tried = IF PoolConfigured
                    THEN SubSeq(secrets.keys, 1, Attempts(secrets.keys, e.constructible))
                    ELSE <<>>
    /\ \A e1, e2 \in Entries(acquire_log) :
          e1.constructible = e2.constructible
          => /\ e1.tried = e2.tried
             /\ e1.model.api_key = e2.model.api_key

\* two calls with different directives both attempted the failing first
\* credential again and selected the second
C14_Witness ==
    /\ secrets.keys = <<"k1", "k2">>
    /\ Len(acquire_log) >= 2
    /\ acquire_log[1].system_instruction # acquire_log[2].system_instruction
    /\ \A i \in 1..2 : /\ acquire_log[i].tried = <<"k1", "k2">>
                       /\ acquire_log[i].model.api_key = "k2"

\* the positions of the script inside each handler
DocPoints == {"doc_acquire", "doc_fallback", "doc_call"}
DebatePoints == {"theorist_acquire", "theorist_call", "applied_acquire",
                 "applied_call", "verdict_acquire", "verdict_call"}
CallPoints == {"doc_call", "theorist_call", "applied_call", "verdict_call"}
AfterAcquire == {"doc_fallback", "theorist_call", "applied_call", "verdict_call"}

\* C15: no step of the document handler changes debate_history, no step of
\* the debate handler changes doc_messages, and no step at all changes
\* st.secrets.
C15_ModesIndependent ==
    [][/\ secrets' = secrets
       /\ (pc \in DocPoints \/ pc' \in DocPoints)
          => debate_history' = debate_history
       /\ (pc \in DebatePoints \/ pc' \in DebatePoints)
          => doc_messages' = doc_messages]_vars

\* a debate run ended, with entries appended, beside a document transcript
\* that it left as it found it
C15_Witness ==
    /\ RunEnded
    /\ mode = "debate"
    /\ PoolConfigured
    /\ Len(NewDebate) >= 2
    /\ doc_messages # <<>>
    /\ doc_messages = doc0

\* C16: debate_history starts with a user entry, a theorist entry directly
\* follows a user entry, an applied entry a theorist entry and a verdict entry
\* an applied entry: every topic's entries are a non-empty prefix of user,
\* theorist, applied, verdict.
C16_DebateShape ==
    LET r == Roles(debate_history)
    IN  \A i \in 1..Len(r) :
           /\ r[i] \in {"user", "theorist", "applied", "verdict"}
           /\ i = 1 => r[i] = "user"
           /\ r[i] = "theorist" => i > 1 /\ r[i - 1] = "user"
           /\ r[i] = "applied" => i > 1 /\ r[i - 1] = "theorist"
           /\ r[i] = "verdict" => i > 1 /\ r[i - 1] = "applied"

\* after a full debate, a topic whose theorist call raised while the applied
\* and the verdict step each obtained a handle: only its user entry was added
C16_Witness ==
    /\ RunEnded
    /\ Len(deb0) = 4
    /\ \E c \in CallsOf("theorist") : c.result = Raised
    /\ \E e \in Entries(acquire_log) : e.step = "applied" /\ e.model # None
    /\ \E e \in Entries(acquire_log) : e.step = "verdict" /\ e.model # None
    /\ Len(NewDebate) = 1

\* C17: in doc_messages every assistant entry directly follows a user entry,
\* and a question has added one user entry and at most one assistant entry.
C17_DocShape ==
    /\ \A i \in 1..Len(doc_messages) :
          /\ doc_messages[i].role \in {"user", "assistant"}
          /\ doc_messages[i].role = "assistant"
             => i > 1 /\ doc_messages[i - 1].role = "user"
    /\ (mode = "doc" /\ prompt # <<>>)
       => /\ Len(NewDoc) \in {1, 2}
          /\ NewDoc[1].role = "user"

\* a question that failed followed by one that was answered
C17_Witness ==
    /\ RunEnded
    /\ Len(doc_messages) = 3
    /\ doc_messages[2].role = "user"
    /\ doc_messages[3].role = "assistant"

\* C18: without a configured pool a debate topic gets no model, makes no
\* remote call and adds only its user entry, also with a manual key typed in.
C18_DebateIgnoresManualKey ==
    (~PoolConfigured /\ mode = "debate" /\ prompt # <<>>)
    => /\ calls = <<>>
       /\ model = None
       /\ \A e \in Entries(acquire_log) : e.model = None
       /\ NewDebate = <<(<<"**You:** ">> \o prompt)>>

\* a topic ran to its end without a vault while a manual key was typed in
C18_Witness ==
    /\ RunEnded
    /\ mode = "debate"
    /\ ~secrets.gemini
    /\ manual_key = "m"
    /\ Len(acquire_log) = 3

====
